---- MODULE Spec2Model ----
(***************************************************************************)
(* State-machine model of amsilf/animals-monitor:                          *)
(*   - ImageStorage  (src/src/utils/storage.py): rate-limited, quota-      *)
(*     checked persistence of detection events and retention cleanup;      *)
(*   - ObjectDetector (src/src/camera/object_detector.py): background-     *)
(*     subtraction motion detector.                                        *)
(* Time is the wall clock in whole seconds since 2024-01-01 00:00:00; the  *)
(* "%f" microsecond field of an event id is therefore always 000000.       *)
(***************************************************************************)
EXTENDS Integers, Sequences, FiniteSets, TLC

(***************************************************************************)
(* Bounds of the model.                                                    *)
(***************************************************************************)
\* Seconds the clock advances in one Tick.
TickStep == 5
\* Number of Ticks observed on each day: the clock is watched over the
\* MaxTicks + 1 readings before midnight.
MaxTicks == 2
\* Number of whole-day jumps of the clock.
MaxDays == 1
\* Number of save_detected_object calls the caller makes.
MaxSaves == 2
\* Number of TickSteps one save_detected_object call can take.
MaxStall == 1
\* Width in pixels of the one-row frames the camera delivers.
FrameWidth == 3
\* Number of detect_objects calls.
MaxFrames == 3

\* The runs of the program (constructions of the store) watched, and the
\* save_detected_object calls watched over these runs.
MaxRuns == 2

MaxRunSaves == 1

\* The call of detect_objects from which the camera delivers one and the
\* same image, and the number of calls with that image.
StillAfter == 2

MaxStill == 6

(***************************************************************************)
(* Calendar: datetime.now(), strftime and strptime.                        *)
(***************************************************************************)
SecondsPerDay == 24 * 60 * 60

Years == {2024, 2025}

IsLeap(y) == (y % 4 = 0 /\ y % 100 # 0) \/ y % 400 = 0

DaysInMonth(y, m) ==
    IF m = 2 THEN (IF IsLeap(y) THEN 29 ELSE 28)
    ELSE IF m \in {4, 6, 9, 11} THEN 30 ELSE 31

DaysInYear(y) == IF IsLeap(y) THEN 366 ELSE 365

RECURSIVE DaysBeforeMonth(_, _)
DaysBeforeMonth(y, m) ==
    IF m = 1 THEN 0 ELSE DaysBeforeMonth(y, m - 1) + DaysInMonth(y, m - 1)

RECURSIVE DaysBeforeYear(_)
DaysBeforeYear(y) ==
    IF y = 2024 THEN 0 ELSE DaysBeforeYear(y - 1) + DaysInYear(y - 1)

\* Day number of a (valid) calendar date, 2024-01-01 being day 0.
ToOrdinal(y, m, d) == DaysBeforeYear(y) + DaysBeforeMonth(y, m) + (d - 1)

\* The calendar dates of the modelled years.
CalendarDates ==
    { t \in [y : Years, m : 1..12, d : 1..31] : t.d <= DaysInMonth(t.y, t.m) }

\* Table: day number -> calendar date.
DateOfOrdinal ==
    [ n \in 0..(DaysInYear(2024) + DaysInYear(2025) - 1) |->
        CHOOSE t \in CalendarDates : ToOrdinal(t.y, t.m, t.d) = n ]

\* A directory-entry name.  A name of the shape "dddd-dd-dd" is held as its
\* three numeric fields (text = ""); any other name as its text.
DateName(y, m, d) == [y |-> y, m |-> m, d |-> d, text |-> ""]
TextName(s) == [y |-> 0, m |-> 0, d |-> 0, text |-> s]

\* datetime.now().strftime("%Y-%m-%d") at clock reading c.
StrfDate(c) ==
    LET t == DateOfOrdinal[c \div SecondsPerDay] IN DateName(t.y, t.m, t.d)

\* datetime.now().strftime("%H-%M-%S") at clock reading c.
StrfTime(c) ==
    LET s == c % SecondsPerDay IN <<s \div 3600, (s \div 60) % 60, s % 60>>

\* datetime.now().strftime("%Y%m%d_%H%M%S_%f") at clock reading c.
StrfId(c) == [date |-> StrfDate(c), time |-> StrfTime(c), usec |-> 0]

\* datetime.strptime(name, "%Y-%m-%d"): TRUE when it raises ValueError.
StrpRaises(n) ==
    \/ n.text # ""
    \/ n.m \notin 1..12
    \/ n.d < 1
    \/ n.d > DaysInMonth(n.y, n.m)

\* datetime.strptime(name, "%Y-%m-%d") as a clock reading (midnight).
StrpDate(n) == ToOrdinal(n.y, n.m, n.d) * SecondsPerDay

(***************************************************************************)
(* ImageStorage: state.                                                    *)
(***************************************************************************)
VARIABLES
    clock,                \* datetime.now(), seconds since 2024-01-01 00:00:00
    entries,              \* images_path.iterdir() without 'latest': [name, kind]
    latest,               \* the images/latest symlink, or NoLink
    files,                \* the files inside the directories of images_path
    last_save_timestamp,  \* self.last_save_timestamp, or None
    pc,                   \* position of the running save_detected_object call
    call,                 \* locals of the running save_detected_object call
    done,                 \* the call that returned last (NoCall while one runs)
    calls,                \* the number of save_detected_object calls so far
    instance              \* the ImageStorage instance: how it was constructed

VARIABLES
    loop                  \* main(): the frame in hand and its for loop

VARIABLES
    background,           \* self.background (float32, times Scale), or <<>>
    frame,                \* the frame of the last detect_objects call
    detected,             \* the regions the last detect_objects call returned
    branch,               \* the branch it took: "none", "init" or "diff"
    delta,                \* its frame_delta (<<>> in the "init" branch)
    frames                \* the number of detect_objects calls so far

detVars == <<background, frame, detected, branch, delta, frames>>

storeVars ==
    <<clock, entries, latest, files, last_save_timestamp, pc, call, done, calls,
      instance>>

\* self.last_save_timestamp = None
None == -1

\* self.min_save_interval = 10  # seconds
min_save_interval == 10

\* max_storage_gb=10
max_storage_gb == 10

\* days_to_keep: int = 7
DefaultDaysToKeep == 7

\* Free space on the volume, in GiB: at the 10% buffer, and above it.
FreeLevels == {1, 2}

NoLink == [present |-> FALSE, target |-> TextName(""), resolves |-> FALSE]

\* The moment the store is constructed: 2024-03-07, MaxTicks + 1 Ticks
\* before midnight.
StartClock == ToOrdinal(2024, 3, 8) * SecondsPerDay - (MaxTicks + 1) * TickStep

Dirs(es) == { e.name : e \in { x \in es : x.kind = "dir" } }

\* What an earlier run and the operator left under images_path: event
\* buckets of 8 and 7 days ago, a directory whose name has the shape of a
\* date but is none (2024-02-30), a directory with another name, and a
\* regular file named like an old date.
LeftOverEntries ==
    { [name |-> DateName(2024, 2, 28), kind |-> "dir"],
      [name |-> DateName(2024, 2, 29), kind |-> "dir"],
      [name |-> DateName(2024, 2, 30), kind |-> "dir"],
      [name |-> TextName("tmp"),       kind |-> "dir"],
      [name |-> DateName(2024, 2, 20), kind |-> "file"] }

\* The bounding boxes the caller passes.
BBoxes == { <<0, 0, 2, 1>> }

\* datetime.now().isoformat() at clock reading c.
IsoFormat(c) == [date |-> StrfDate(c), time |-> StrfTime(c)]

\* The clock reading an ISO-8601 timestamp denotes.
IsoSeconds(ts) ==
    StrpDate(ts.date) + ts.time[1] * 3600 + ts.time[2] * 60 + ts.time[3]

\* An event file: <dir>/<HH-MM-SS>_object_<id>.<ext>.  A .json file holds
\* the metadata (bbox and timestamp ts), a .jpg file the frame of that
\* event; drawn: the rectangles to be seen on that image.
EventFile(dir, hms, id, ext, bbox, ts) ==
    [dir |-> dir, hms |-> hms, id |-> id, ext |-> ext, bbox |-> bbox, ts |-> ts,
     drawn |-> IF ext = "jpg" THEN {bbox} ELSE {}]

OldEvent(y, m, d, ext) ==
    LET c == ToOrdinal(y, m, d) * SecondsPerDay + 12 * 3600 IN
    EventFile(DateName(y, m, d), StrfTime(c), StrfId(c), ext,
              <<0, 0, 2, 1>>, IsoFormat(c))

LeftOverFiles ==
    { OldEvent(2024, 2, 28, "jpg"), OldEvent(2024, 2, 28, "json"),
      OldEvent(2024, 2, 29, "jpg"), OldEvent(2024, 2, 29, "json"),
      EventFile(TextName("tmp"), StrfTime(0), StrfId(0), "jpg",
                <<0, 0, 2, 1>>, IsoFormat(0)) }

(***************************************************************************)
(* ImageStorage.__init__ and _init_directory_structure.                    *)
(***************************************************************************)
\* The directory entries and the 'latest' link after construction at clock
\* reading now, over the entries es and the link old found on disk.
\* absolute: base_path is an absolute path (a relative link target is
\* resolved against images_path, where it names nothing); symlinks: the
\* filesystem can hold symbolic links.
InitDirectoryStructure(es, old, now, absolute, symlinks) ==
    LET today  == StrfDate(now)
        es2    == es \cup {[name |-> today, kind |-> "dir"]}
        exists == old.present /\ old.resolves /\ old.target \in Dirs(es2)
        fresh  == [present |-> TRUE, target |-> today, resolves |-> absolute]
    IN  [entries |-> es2,
         latest  |-> IF ~symlinks THEN (IF exists THEN NoLink ELSE old)
                     ELSE IF exists \/ ~old.present THEN fresh
                     ELSE old]

\* What mkdir can do at lines 38 and 42: make the directories (or find
\* them), or raise.
MkdirOutcomes == {"ok", "raise"}

\* Lines 47-49: "none" when the link is made, else the exception raised:
\* by symlink_to on a filesystem without symbolic links, and by symlink_to
\* over a link that exists() did not see and unlink() so did not remove.
SymlinkRaises(es, old, now, symlinks) ==
    LET es2 == es \cup {[name |-> StrfDate(now), kind |-> "dir"]}
    IN  IF ~symlinks THEN "OSError"
        ELSE IF old.present /\ ~(old.resolves /\ old.target \in Dirs(es2))
             THEN "FileExistsError"
             ELSE "none"

\* A handler that takes the exceptions of the operating system only.
ExceptOSErrorOnly(exc) == exc \in {"OSError", "FileNotFoundError"}

\* "except Exception" (lines 141 and 166): TRUE when the clause takes the
\* exception exc raised in its try block.
ExceptException(exc) == TRUE

\* "except OSError" (line 50): TRUE when the clause takes the exception.
ExceptOSError(exc) == exc \in {"OSError", "FileExistsError", "FileNotFoundError"}

\* ImageStorage(base_path): the directory entries and the link left on
\* disk and the instance the caller gets.  at: the clock reading at
\* construction; n: the instances constructed so far; mkdir: what mkdir
\* did; link: the exception of lines 47-49, "none" without one; ok: FALSE
\* when _init_directory_structure raised to the caller (lines 53-55), who
\* then holds no instance; raised: the method of the instance that let an
\* exception reach its caller, "none" when none did; logged: the failure
\* cleanup_old_files logged at line 167.
Construct(es, old, now, n, absolute, symlinks, mkdir) ==
    LET made == InitDirectoryStructure(es, old, now, absolute, symlinks)
        exc  == SymlinkRaises(es, old, now, symlinks)
        inst == [at |-> now, n |-> n, mkdir |-> mkdir,
                 link |-> IF mkdir = "ok" THEN exc ELSE "none",
                 ok |-> mkdir = "ok" /\ (exc # "none" => ExceptOSError(exc)),
                 absolute |-> absolute, symlinks |-> symlinks,
                 raised |-> "none", logged |-> "none"]
    IN  IF mkdir = "ok"
        THEN [entries |-> made.entries, latest |-> made.latest, instance |-> inst]
        ELSE [entries |-> es, latest |-> old, instance |-> inst]

\* The attempt before the running one: when it began, whether it saved,
\* and the event id and the path it made.
NoPrev == [start |-> None, saved |-> FALSE, object_id |-> StrfId(0),
           hms |-> StrfTime(0), dir |-> TextName("")]

\* The locals of save_detected_object when no call is running.  checks:
\* the results of the free-space checks, in order; cleanups: the number
\* of cleanup_old_files runs; fault: the disk refused a write it could
\* have taken.
NoCall ==
    [bbox |-> <<0, 0, 0, 0>>, current_time |-> None, before |-> None,
     checks |-> <<>>, cleanups |-> 0,
     object_id |-> StrfId(0), timestamp |-> IsoFormat(0),
     hms |-> StrfTime(0), dir |-> TextName(""),
     image |-> "none", json |-> "none",
     fault |-> FALSE, prev |-> NoPrev,
     ret |-> FALSE, why |-> "none", after |-> None]

\* main.py line 27: ImageStorage(), with base_path "storage" (a relative
\* path), on a disk that takes the directories and the link.
InitStoreAt(absolute) ==
    /\ clock = StartClock
    /\ LET made == Construct(LeftOverEntries, NoLink, clock, 1, absolute, TRUE, "ok")
       IN  /\ entries = made.entries
           /\ latest = made.latest
           /\ instance = made.instance
    /\ files = LeftOverFiles
    /\ last_save_timestamp = None
    /\ pc = "idle"
    /\ call = NoCall
    /\ done = NoCall
    /\ calls = 0

InitStore == InitStoreAt(FALSE)

\* main(): no frame captured yet.  objects: the regions of the frame in
\* hand; index: the regions the for loop of line 47 has passed to the
\* store; marks: the rectangles drawn on the frame in hand; processed:
\* the rectangles drawn on the detector's processed_frame.
InitLoop == loop = [objects |-> <<>>, index |-> 0, marks |-> {}, processed |-> {}]

\* A later run of the program constructs the store again, over what the
\* earlier runs left on disk.
ImageStorage(absolute, symlinks, mkdir) ==
    /\ pc = "idle"
    /\ instance.n < MaxRuns
    /\ LET made == Construct(entries, latest, clock, instance.n + 1,
                             absolute, symlinks, mkdir)
       IN  /\ entries' = made.entries
           /\ latest' = made.latest
           /\ instance' = made.instance
    /\ last_save_timestamp' = None
    /\ call' = NoCall
    /\ done' = NoCall
    /\ UNCHANGED <<clock, files, pc, calls>>
    /\ UNCHANGED <<detVars, loop>>

(***************************************************************************)
(* The environment: the wall clock.                                        *)
(***************************************************************************)
\* The clock moves on between the calls, as long as a call is to come.
\* (The time a running call takes passes inside SavePrepare, up to the
\* call's last reading of the clock.)
Tick ==
    /\ pc = "idle"
    /\ calls < MaxSaves
    /\ (clock - StartClock) % SecondsPerDay < MaxTicks * TickStep
    /\ clock' = clock + TickStep
    /\ UNCHANGED <<entries, latest, files, last_save_timestamp, pc, call, done, calls>>
    /\ UNCHANGED <<detVars, instance, loop>>

NextDay ==
    /\ pc = "idle"
    /\ calls < MaxSaves
    /\ (clock - StartClock) \div SecondsPerDay < MaxDays
    /\ clock' = clock + SecondsPerDay
    /\ UNCHANGED <<entries, latest, files, last_save_timestamp, pc, call, done, calls>>
    /\ UNCHANGED <<detVars, instance, loop>>

\* The wall clock is set back by one tick (datetime.now() is the local
\* wall clock, which an operator or a time service can set back).
StepBack ==
    /\ pc = "idle"
    /\ calls < MaxSaves
    /\ (clock - StartClock) % SecondsPerDay >= TickStep
    /\ clock' = clock - TickStep
    /\ UNCHANGED <<entries, latest, files, last_save_timestamp, pc, call, done, calls>>
    /\ UNCHANGED <<detVars, instance, loop>>

(***************************************************************************)
(* ImageStorage._check_storage_space and cleanup_old_files.                *)
(***************************************************************************)
\* free > self.max_storage_bytes * 0.1, both sides in GiB and times 10.
CheckStorageSpace(f) == f * 10 > max_storage_gb

\* (current_time - dir_date).days with a day that has begun counted in.
AgeDaysRoundedUp(now, n) ==
    (now - StrpDate(n) + SecondsPerDay - 1) \div SecondsPerDay

\* (current_time - dir_date).days: the whole days, rounded down.
AgeDays(now, n) == (now - StrpDate(n)) \div SecondsPerDay

\* The test of lines 155-164 with >= for >.
ExpiredAtWindow(e, now, days_to_keep) ==
    /\ e.kind = "dir"
    /\ e.name # TextName("latest")
    /\ ~StrpRaises(e.name)
    /\ AgeDays(now, e.name) >= days_to_keep

\* The test of lines 155-164 on one entry of images_path: TRUE when
\* shutil.rmtree is called on it.
Expired(e, now, days_to_keep) ==
    /\ e.kind = "dir"
    /\ e.name # TextName("latest")
    /\ ~StrpRaises(e.name)
    /\ AgeDays(now, e.name) > days_to_keep

\* A cleanup whose loop ends after the first directory it removes.
CleanupEntriesFirstOnly(es, now, days_to_keep) ==
    LET old == { e \in es : Expired(e, now, days_to_keep) }
    IN  IF old = {} THEN es
        ELSE es \ { CHOOSE e \in old :
                      \A o \in old : StrpDate(e.name) <= StrpDate(o.name) }

\* The entries and the files cleanup_old_files leaves.
CleanupEntries(es, now, days_to_keep) ==
    { e \in es : ~Expired(e, now, days_to_keep) }

CleanupFiles(es, fs, now, days_to_keep) ==
    { f \in fs : [name |-> f.dir, kind |-> "dir"] \in CleanupEntries(es, now, days_to_keep) }

\* A call of cleanup_old_files(days_to_keep) by the owner of the store.
cleanup_old_files(days_to_keep) ==
    /\ pc = "idle"
    /\ instance.ok
    /\ entries' = CleanupEntries(entries, clock, days_to_keep)
    /\ files' = CleanupFiles(entries, files, clock, days_to_keep)
    /\ UNCHANGED <<clock, latest, last_save_timestamp, pc, call, done, calls>>
    /\ UNCHANGED <<detVars, instance, loop>>

\* A call of cleanup_old_files(days_to_keep) in which iterdir or rmtree
\* raises: the directories in gone are removed by then (none, when iterdir
\* raises), line 167 logs the exception.
cleanup_old_files_raising(days_to_keep) ==
    /\ pc = "idle"
    /\ instance.ok
    /\ \E gone \in SUBSET { e \in entries : Expired(e, clock, days_to_keep) } :
         /\ entries' = entries \ gone
         /\ files' = { f \in files : [name |-> f.dir, kind |-> "dir"] \notin gone }
    /\ instance' = IF ExceptException("OSError")
                   THEN [instance EXCEPT !.logged = "OSError"]
                   ELSE [instance EXCEPT !.raised = "cleanup_old_files"]
    /\ UNCHANGED <<clock, latest, last_save_timestamp, pc, call, done, calls>>
    /\ UNCHANGED <<detVars, loop>>

\* The free space the second check can find when the first found f: more,
\* if at all, only when the cleanup removed files.
FreeAfter(f, fs, fs2) == IF fs2 = fs THEN {f} ELSE { g \in FreeLevels : g >= f }

(***************************************************************************)
(* ImageStorage.save_detected_object, one step per reading of the clock    *)
(* and per write.                                                          *)
(***************************************************************************)
\* The rate limiter with its comparison turned round.
RateLimitedInverted(last, now) ==
    /\ last # None
    /\ now - last > min_save_interval

\* The rate limiter testing the distance of the two readings.
RateLimitedDistance(last, now) ==
    /\ last # None
    /\ now - last < min_save_interval
    /\ last - now < min_save_interval

\* The rate limiter's test, lines 85-87.
RateLimited(last, now) ==
    /\ last # None
    /\ now - last < min_save_interval

\* The call c as it returns ret.
Returned(c, ret, why, after) ==
    [c EXCEPT !.ret = ret, !.why = why, !.after = after]

\* The call c as exc is raised in it: line 143 returns False when the
\* handler takes exc; an exception it does not take reaches the caller.
Raised(c, exc, why, after) ==
    Returned(c, FALSE, IF ExceptException(exc) THEN why ELSE "propagated", after)

\* Lines 84-89: read the clock, apply the rate limit.
SaveCall(bbox) ==
    /\ pc = "idle"
    /\ instance.ok
    /\ calls < MaxSaves
    /\ calls' = calls + 1
    /\ LET c == [NoCall EXCEPT
                   !.bbox = bbox, !.current_time = clock,
                   !.before = last_save_timestamp,
                   !.prev = [start |-> done.current_time, saved |-> done.ret,
                             object_id |-> done.object_id, hms |-> done.hms,
                             dir |-> done.dir]]
       IN  IF RateLimited(last_save_timestamp, clock)
           THEN /\ done' = Returned(c, FALSE, "rate_limited", last_save_timestamp)
                /\ UNCHANGED <<pc, call>>
           ELSE /\ pc' = "quota"
                /\ call' = c
                /\ done' = NoCall
    /\ UNCHANGED <<clock, entries, latest, files, last_save_timestamp>>
    /\ UNCHANGED <<detVars, instance>>

\* A call save_detected_object(frame, bbox) from outside the capture loop.
SaveBegin(bbox) == SaveCall(bbox) /\ UNCHANGED loop

\* Lines 91-94 without the second check: the save goes on after the
\* cleanup.
SaveQuotaNoRecheck ==
    /\ pc = "quota"
    /\ \E f1 \in FreeLevels :
         IF CheckStorageSpace(f1)
         THEN /\ call' = [call EXCEPT !.checks = <<TRUE>>]
              /\ UNCHANGED <<entries, files>>
         ELSE /\ entries' = CleanupEntries(entries, clock, DefaultDaysToKeep)
              /\ files' = CleanupFiles(entries, files, clock, DefaultDaysToKeep)
              /\ call' = [call EXCEPT !.checks = <<FALSE>>, !.cleanups = 1]
    /\ pc' = "prepare"
    /\ UNCHANGED <<clock, latest, last_save_timestamp, calls, done>>
    /\ UNCHANGED <<detVars, instance, loop>>

\* Lines 91-94: the free-space check, with one cleanup and one re-check.
\* f1 and f2 are the free space the two checks find.
SaveQuota ==
    /\ pc = "quota"
    /\ \E f1 \in FreeLevels :
         IF CheckStorageSpace(f1)
         THEN /\ pc' = "prepare"
              /\ call' = [call EXCEPT !.checks = <<TRUE>>]
              /\ UNCHANGED <<entries, files, done>>
         ELSE /\ entries' = CleanupEntries(entries, clock, DefaultDaysToKeep)
              /\ files' = CleanupFiles(entries, files, clock, DefaultDaysToKeep)
              /\ \E f2 \in FreeAfter(f1, files, files') :
                   LET c == [call EXCEPT !.checks = <<FALSE, CheckStorageSpace(f2)>>,
                                         !.cleanups = 1]
                   IN  IF CheckStorageSpace(f2)
                       THEN /\ pc' = "prepare"
                            /\ call' = c
                            /\ UNCHANGED done
                       ELSE \* RuntimeError("Insufficient storage space"), caught
                            /\ pc' = "idle"
                            /\ call' = NoCall
                            /\ done' = Raised(c, "RuntimeError", "no_space",
                                              last_save_timestamp)
    /\ UNCHANGED <<clock, latest, last_save_timestamp, calls>>
    /\ UNCHANGED <<detVars, instance, loop>>

\* The clock readings of lines 97, 103, 66 and 68, in this order, of a
\* call that began (line 84) at clock reading now: the call is held up
\* once, for up to MaxStall ticks, before one of the readings.
Readings(now) ==
    { [ i \in 1..4 |-> IF i < j THEN now ELSE now + k * TickStep ] :
        j \in 1..4, k \in 0..MaxStall }

\* Lines 96-126: the event id (line 97), the metadata with its timestamp
\* (line 103), and generate_filename: the HH-MM-SS prefix of the file name
\* (line 66) and the date bucket of the path (line 68).
SavePrepare ==
    /\ pc = "prepare"
    /\ \E r \in Readings(clock) :
         IF Len(call.bbox) = 4
         THEN /\ call' = [call EXCEPT !.object_id = StrfId(r[1]),
                                      !.timestamp = IsoFormat(r[2]),
                                      !.hms = StrfTime(r[3]),
                                      !.dir = StrfDate(r[4])]
              /\ clock' = r[4]
              /\ pc' = "image"
              /\ UNCHANGED done
         ELSE \* line 100: ValueError, the unpacking wants four values
              /\ clock' = r[1]
              /\ pc' = "idle"
              /\ call' = NoCall
              /\ done' = Raised([call EXCEPT !.object_id = StrfId(r[1])],
                                "ValueError", "bad_input", last_save_timestamp)
    /\ UNCHANGED <<entries, latest, files, last_save_timestamp, calls>>
    /\ UNCHANGED <<detVars, instance, loop>>

\* What cv2.imwrite can do: write the file and return True; write nothing
\* and return False (which line 129 does not look at); raise.  Into a
\* directory that does not exist it writes nothing and returns False.
ImwriteOutcomes(dir, es) ==
    IF dir \in Dirs(es) THEN {"written", "false", "raise"} ELSE {"false"}

\* What open(metadata_path, 'w') and json.dump can do: write the record,
\* or raise (always, when the directory does not exist).
JsonOutcomes(dir, es) ==
    IF dir \in Dirs(es) THEN {"written", "raise"} ELSE {"raise"}

\* cv2.rectangle drawing bbox on the caller's image itself.
DrawInPlace(frame_marks, bbox) ==
    [frame |-> frame_marks \cup {bbox}, frame_with_box |-> frame_marks \cup {bbox}]

\* Lines 120-121: frame.copy(), then cv2.rectangle on the copy.  The
\* rectangles on the caller's frame and on frame_with_box afterwards.
DrawOnCopy(frame_marks, bbox) ==
    [frame |-> frame_marks, frame_with_box |-> frame_marks \cup {bbox}]

\* Lines 119-129: draw the box and the time, write the image.
SaveImage ==
    /\ pc = "image"
    /\ loop' = [loop EXCEPT !.marks = DrawOnCopy(loop.marks, call.bbox).frame]
    /\ \E o \in ImwriteOutcomes(call.dir, entries) :
         LET jpg == [EventFile(call.dir, call.hms, call.object_id, "jpg",
                               call.bbox, call.timestamp)
                       EXCEPT !.drawn = DrawOnCopy(loop.marks, call.bbox).frame_with_box]
             c   == [call EXCEPT
                       !.image = o,
                       !.fault = (o # "written" /\ call.dir \in Dirs(entries))]
         IN  /\ files' = IF o = "written" THEN files \cup {jpg} ELSE files
             /\ IF o = "raise"
                THEN /\ pc' = "idle"
                     /\ call' = NoCall
                     /\ done' = Raised(c, "cv2.error", "io_error", last_save_timestamp)
                ELSE /\ pc' = "json"
                     /\ call' = c
                     /\ UNCHANGED done
    /\ UNCHANGED <<clock, entries, latest, last_save_timestamp, calls>>
    /\ UNCHANGED <<detVars, instance>>

\* The value line 137 gives last_save_timestamp.
NewLastSave(c) == c.current_time

\* Lines 131-143: write the metadata, then move the rate limiter's
\* timestamp and return True; any exception returns False.
SaveJson ==
    /\ pc = "json"
    /\ \E o \in JsonOutcomes(call.dir, entries) :
         LET json == EventFile(call.dir, call.hms, call.object_id, "json",
                               call.bbox, call.timestamp)
             c    == [call EXCEPT
                        !.json = o,
                        !.fault = @ \/ (o # "written" /\ call.dir \in Dirs(entries))]
         IN  /\ files' = IF o = "written" THEN files \cup {json} ELSE files
             /\ IF o = "written"
                THEN /\ last_save_timestamp' = NewLastSave(call)
                     /\ done' = Returned(c, TRUE, "saved", NewLastSave(call))
                ELSE /\ UNCHANGED last_save_timestamp
                     /\ done' = Raised(c, IF call.dir \in Dirs(entries)
                                          THEN "OSError" ELSE "FileNotFoundError",
                                       "io_error", last_save_timestamp)
    /\ pc' = "idle"
    /\ call' = NoCall
    /\ UNCHANGED <<clock, entries, latest, calls>>
    /\ UNCHANGED <<detVars, instance, loop>>

save_detected_object ==
    \/ \E bbox \in BBoxes : SaveBegin(bbox)
    \/ SaveQuota
    \/ SavePrepare
    \/ SaveImage
    \/ SaveJson

(***************************************************************************)
(* ObjectDetector.  Frames have one row of FrameWidth BGR pixels; the      *)
(* detector is constructed with blur_size = 3 and min_area = 0 (a contour  *)
(* in a one-row image bounds no area), threshold and dilate_iterations at  *)
(* their defaults.                                                         *)
(***************************************************************************)
DetectorArgs ==
    [min_area |-> 0, threshold |-> 30, blur_size |-> 3, dilate_iterations |-> 2]

\* The colours of a pixel, as (B, G, R): black and red, and a red so dim
\* that its grey level is 1.
Colours == { <<0, 0, 0>>, <<0, 0, 255>> }

Dim == <<0, 0, 4>>

\* The frames the camera delivers: every image of black and red pixels,
\* and the evenly dim image.
Frames == [1..FrameWidth -> Colours] \cup { [ i \in 1..FrameWidth |-> Dim ] }

RECURSIVE Power(_, _)
Power(b, n) == IF n = 0 THEN 1 ELSE b * Power(b, n - 1)

\* The background model holds each float32 value times Scale, which is
\* exact for the updates of the calls watched (each divides by 5).
Scale ==
    Power(5, IF MaxFrames > StillAfter + MaxStill - 2
             THEN MaxFrames ELSE StillAfter + MaxStill - 2)

\* cv2.cvtColor(frame, cv2.COLOR_BGR2GRAY) on one pixel: OpenCV's 14-bit
\* fixed-point weights of B, G and R.
Gray(p) == (p[1] * 1868 + p[2] * 9617 + p[3] * 4899 + 8192) \div 16384

\* BORDER_REFLECT_101: the index a kernel tap at i reads in a row of w.
Reflect101(i, w) == IF i < 1 THEN 2 - i ELSE IF i > w THEN 2 * w - i ELSE i

\* cv2.GaussianBlur with a 3x3 kernel (1 2 1)/4 on a one-row image: the
\* vertical pass reads the one row three times.
GaussianBlur(img) ==
    [ i \in 1..Len(img) |->
        ( img[Reflect101(i - 1, Len(img))] + 2 * img[i]
          + img[Reflect101(i + 1, Len(img))] + 2 ) \div 4 ]

\* preprocess_frame.
preprocess_frame(f) == GaussianBlur([ i \in 1..Len(f) |-> Gray(f[i]) ])

\* np.float32(preprocessed).
Float32(img) == [ i \in 1..Len(img) |-> img[i] * Scale ]

\* cv2.convertScaleAbs: the absolute value rounded to the nearest integer
\* (halves to even) and saturated to 8 bits.
RoundHalfEven(v) ==
    LET q == v \div Scale
        r == v % Scale
    IN  IF 2 * r > Scale THEN q + 1
        ELSE IF 2 * r < Scale THEN q
        ELSE IF q % 2 = 0 THEN q ELSE q + 1

ConvertScaleAbs(bg) ==
    [ i \in 1..Len(bg) |->
        LET a == RoundHalfEven(IF bg[i] < 0 THEN -bg[i] ELSE bg[i])
        IN  IF a > 255 THEN 255 ELSE a ]

\* cv2.absdiff.
AbsDiff(a, b) ==
    [ i \in 1..Len(a) |-> IF a[i] >= b[i] THEN a[i] - b[i] ELSE b[i] - a[i] ]

\* cv2.threshold with cv2.THRESH_BINARY_INV.
ThresholdInverted(d, t) == [ i \in 1..Len(d) |-> IF d[i] > t THEN 0 ELSE 255 ]

\* cv2.threshold(frame_delta, threshold, 255, cv2.THRESH_BINARY)[1].
Threshold(d, t) == [ i \in 1..Len(d) |-> IF d[i] > t THEN 255 ELSE 0 ]

\* cv2.dilate(thresh, None, iterations = n): the 3x3 maximum, n times.
RECURSIVE Dilate(_, _)
Dilate(m, n) ==
    IF n = 0 THEN m
    ELSE Dilate([ i \in 1..Len(m) |->
                    IF \E j \in {i - 1, i, i + 1} : j \in 1..Len(m) /\ m[j] = 255
                    THEN 255 ELSE 0 ], n - 1)

\* cv2.findContours(..., RETR_EXTERNAL, ...): the maximal runs of
\* foreground pixels <<first, last>>, from left to right.
RECURSIVE RunsFrom(_, _)
RunsFrom(m, i) ==
    IF i > Len(m) THEN <<>>
    ELSE IF m[i] # 255 THEN RunsFrom(m, i + 1)
    ELSE LET last == CHOOSE j \in i..Len(m) :
                       /\ \A k \in i..j : m[k] = 255
                       /\ (j = Len(m) \/ m[j + 1] # 255)
         IN  <<<<i, last>>>> \o RunsFrom(m, last + 1)

FindContours(m) == RunsFrom(m, 1)

\* cv2.contourArea: the area the contour's polygon bounds, which is 0 in
\* a one-row image.
ContourArea(run) == 0

\* cv2.boundingRect: (x, y, w, h), x and y counted from 0.
BoundingRect(run) == <<run[1] - 1, 0, run[2] - run[1] + 1, 1>>

\* Lines 85-94: the boxes of the contours not smaller than min_area.
RECURSIVE Boxes(_)
Boxes(cs) ==
    IF cs = <<>> THEN <<>>
    ELSE (IF ContourArea(Head(cs)) < DetectorArgs.min_area
          THEN <<>> ELSE <<BoundingRect(Head(cs))>>) \o Boxes(Tail(cs))

\* A background model that is never updated.
AccumulateNothing(pre, bg) == bg

\* cv2.accumulateWeighted(np.float32(preprocessed), self.background, 0.2):
\* background = 0.8 * background + 0.2 * preprocessed.
AccumulateWeighted(pre, bg) ==
    [ i \in 1..Len(bg) |-> (4 * bg[i] + pre[i] * Scale) \div 5 ]

\* detect_objects that leaves the background model alone when it returns
\* a region.
DetectUpdateWhenStill(bg, f) ==
    LET pre == preprocess_frame(f) IN
    IF bg = <<>>
    THEN [regions |-> <<>>, background |-> Float32(pre), branch |-> "init",
          delta |-> <<>>]
    ELSE LET d      == AbsDiff(ConvertScaleAbs(bg), pre)
             thresh == Dilate(Threshold(d, DetectorArgs.threshold),
                              DetectorArgs.dilate_iterations)
             found  == Boxes(FindContours(thresh))
         IN  [regions |-> found,
              background |-> IF found = <<>> THEN AccumulateWeighted(pre, bg) ELSE bg,
              branch |-> "diff", delta |-> d]

\* detect_objects whose first call leaves an all-zero background model.
DetectZeroInit(bg, f) ==
    LET pre == preprocess_frame(f) IN
    IF bg = <<>>
    THEN [regions |-> <<>>, background |-> [ i \in 1..Len(pre) |-> 0 ],
          branch |-> "init", delta |-> <<>>]
    ELSE LET d      == AbsDiff(ConvertScaleAbs(bg), pre)
             thresh == Dilate(Threshold(d, DetectorArgs.threshold),
                              DetectorArgs.dilate_iterations)
         IN  [regions |-> Boxes(FindContours(thresh)),
              background |-> AccumulateWeighted(pre, bg),
              branch |-> "diff", delta |-> d]

\* detect_objects(f) with the background model bg: the regions returned,
\* the background model left, the branch taken and the frame_delta.
Detect(bg, f) ==
    LET pre == preprocess_frame(f) IN
    IF bg = <<>>
    THEN [regions |-> <<>>, background |-> Float32(pre), branch |-> "init",
          delta |-> <<>>]
    ELSE LET d      == AbsDiff(ConvertScaleAbs(bg), pre)
             thresh == Dilate(Threshold(d, DetectorArgs.threshold),
                              DetectorArgs.dilate_iterations)
         IN  [regions |-> Boxes(FindContours(thresh)),
              background |-> AccumulateWeighted(pre, bg),
              branch |-> "diff", delta |-> d]

\* ObjectDetector.__init__.
InitDetector ==
    /\ background = <<>>
    /\ frame = [ i \in 1..FrameWidth |-> <<0, 0, 0>> ]
    /\ detected = <<>>
    /\ branch = "none"
    /\ delta = <<>>
    /\ frames = 0

\* Lines 64 and 97: frame.copy(), then cv2.rectangle on the copy for each
\* region.  The rectangles on the caller's frame and on processed_frame
\* afterwards.
ProcessedFrame(frame_marks, regions) ==
    [frame |-> frame_marks,
     processed_frame |-> frame_marks \cup { regions[i] : i \in 1..Len(regions) }]

\* A call detect_objects(f).
DetectStep(f) ==
    /\ LET r == Detect(background, f)
       IN  /\ background' = r.background
           /\ detected' = r.regions
           /\ branch' = r.branch
           /\ delta' = r.delta
    /\ frame' = f
    /\ frames' = frames + 1
    /\ UNCHANGED storeVars

DetectCall(f) == frames < MaxFrames /\ DetectStep(f)

\* A call detect_objects(f) from outside the capture loop.
detect_objects(f) == DetectCall(f) /\ UNCHANGED loop

(***************************************************************************)
(* main(): the capture loop, lines 36-48.                                  *)
(***************************************************************************)
\* The camera's images are wide enough for two regions that dilation does
\* not join.
CameraWidth == 2 * DetectorArgs.dilate_iterations + 3

\* The frames the camera delivers: the empty scene, an object at the left
\* edge, and objects at both edges.
CameraFrames ==
    LET black == <<0, 0, 0>>
        red   == <<0, 0, 255>>
    IN  { [ i \in 1..CameraWidth |-> black ],
          [ i \in 1..CameraWidth |-> IF i = 1 THEN red ELSE black ],
          [ i \in 1..CameraWidth |-> IF i \in {1, CameraWidth} THEN red ELSE black ] }

\* Lines 38-44: capture a frame, once the for loop over the regions of the
\* frame before is through, and pass it to the detector.
LoopDetect(f) ==
    /\ pc = "idle"
    /\ instance.ok
    /\ loop.index = Len(loop.objects)
    /\ DetectCall(f)
    /\ LET drawing == ProcessedFrame({}, detected')
       IN  loop' = [objects |-> detected', index |-> 0,
                    marks |-> drawing.frame, processed |-> drawing.processed_frame]

\* Lines 47-48: the next region of the list goes to the store, with the
\* frame as captured.
LoopSave ==
    /\ loop.index < Len(loop.objects)
    /\ SaveCall(loop.objects[loop.index + 1])
    /\ loop' = [loop EXCEPT !.index = @ + 1]

(***************************************************************************)
(* The specifications: the Event Store with its clock, and the detector.   *)
(***************************************************************************)
vars == <<storeVars, detVars, loop>>

Init == InitStore /\ InitDetector /\ InitLoop

\* The retention windows the owner of the store asks for.
RetentionArgs == {0, DefaultDaysToKeep}

NextStore ==
    \/ Tick
    \/ NextDay
    \/ \E d \in RetentionArgs : cleanup_old_files(d)
    \/ save_detected_object

SpecStore == Init /\ [][NextStore]_vars

\* The store on a machine whose clock can be set back.
NextSkew ==
    \/ Tick
    \/ StepBack
    \/ save_detected_object

SpecSkew == Init /\ [][NextSkew]_vars

\* The store over several runs of the program, with disks that fail and
\* callers that pass a region of three numbers.
InitRuns == (\E absolute \in BOOLEAN : InitStoreAt(absolute)) /\ InitDetector /\ InitLoop

RunBBoxes == BBoxes \cup { <<0, 0, 2>> }

RunSave(bbox) == calls < MaxRunSaves /\ SaveBegin(bbox)

NextRuns ==
    \/ \E absolute \in BOOLEAN, symlinks \in BOOLEAN, mkdir \in MkdirOutcomes :
         ImageStorage(absolute, symlinks, mkdir)
    \/ \E d \in RetentionArgs : cleanup_old_files_raising(d)
    \/ \E bbox \in RunBBoxes : RunSave(bbox)
    \/ SaveQuota
    \/ SavePrepare
    \/ SaveImage
    \/ SaveJson

SpecRuns == InitRuns /\ [][NextRuns]_vars

NextDetector == \E f \in Frames : detect_objects(f)

\* The detector in front of a scene that comes to rest: any frames up to
\* call StillAfter, the frame of that call from then on.
DetectAnew(f) == frames < StillAfter /\ DetectStep(f) /\ UNCHANGED loop

DetectSame ==
    /\ frames >= StillAfter
    /\ frames < StillAfter + MaxStill - 1
    /\ DetectStep(frame)
    /\ UNCHANGED loop

NextStill ==
    \/ \E f \in Frames : DetectAnew(f)
    \/ DetectSame

\* main()'s while loop (line 36) goes on calling detect_objects: as long
\* as calls are watched, the next call is made.
NextCall == frames < StillAfter + MaxStill - 1 /\ frames' = frames + 1

SpecStill == Init /\ [][NextStill]_vars /\ WF_frames(NextCall)

\* The capture loop with its detector and its store.
NextLoop ==
    \/ \E f \in CameraFrames : LoopDetect(f)
    \/ LoopSave
    \/ SaveQuota
    \/ SavePrepare
    \/ SaveImage
    \/ SaveJson

SpecLoop == Init /\ [][NextLoop]_vars

SpecDetector == Init /\ [][NextDetector]_vars

(***************************************************************************)
(* C1.  A save_detected_object call that begins less than                  *)
(* min_save_interval seconds after the call of the previous successful     *)
(* save (whose clock reading last_save_timestamp holds) returns False as   *)
(* a skip and is a no-op: it writes no image and no metadata file, runs    *)
(* neither the quota check nor the cleanup, and leaves last_save_timestamp *)
(* unchanged.                                                              *)
(***************************************************************************)
C1_RateLimitedSaveIsNoOp ==
    [][ ( /\ pc = "idle"
          /\ calls' = calls + 1
          /\ last_save_timestamp # None
          /\ clock - last_save_timestamp < min_save_interval )
        => ( /\ pc' = "idle"
             /\ done'.ret = FALSE
             /\ done'.why = "rate_limited"
             /\ done'.checks = <<>>
             /\ done'.cleanups = 0
             /\ UNCHANGED <<files, entries, latest, last_save_timestamp>> ) ]_vars

\* A call was skipped after a save that succeeded.
C1_Witness ==
    /\ done.why = "rate_limited"
    /\ done.prev.saved
    /\ done.current_time - last_save_timestamp < min_save_interval

(***************************************************************************)
(* C2.  Any two events this ImageStorage instance persisted carry          *)
(* metadata timestamps at least min_save_interval seconds apart.           *)
(* (Refuted: the limiter compares the clock readings of line 84, and the   *)
(* metadata timestamp is read later, at line 103.)                         *)
(***************************************************************************)
Persisted == { f \in files \ LeftOverFiles : f.ext = "json" }

C2_MetadataTimestampsApart ==
    \A f \in Persisted : \A g \in Persisted \ {f} :
        \/ IsoSeconds(f.ts) - IsoSeconds(g.ts) >= min_save_interval
        \/ IsoSeconds(g.ts) - IsoSeconds(f.ts) >= min_save_interval

(***************************************************************************)
(* C3.  Of two successive save attempts more than min_save_interval        *)
(* seconds apart, the first of which saved, the second, made with          *)
(* sufficient free space on a disk that refuses no write, returns True     *)
(* too, and the two have distinct event ids, image files and metadata      *)
(* files.  (Refuted: after midnight the bucket of the new date does not    *)
(* exist, see C13.)                                                        *)
(***************************************************************************)
Path(c) == [dir |-> c.dir, hms |-> c.hms, id |-> c.object_id]

OnDisk(c, ext) ==
    \E f \in files : f.dir = c.dir /\ f.hms = c.hms /\ f.id = c.object_id /\ f.ext = ext

C3_SpacedSavesBothSucceed ==
    ( /\ pc = "idle"
      /\ done.why # "none"
      /\ done.prev.saved
      /\ done.current_time - done.prev.start > min_save_interval
      /\ done.checks # <<>>
      /\ done.checks[Len(done.checks)]
      /\ ~done.fault )
    => ( /\ done.ret
         /\ done.object_id # done.prev.object_id
         /\ Path(done) # Path(done.prev)
         /\ OnDisk(done, "jpg")
         /\ OnDisk(done, "json") )

(***************************************************************************)
(* C4.  When the image write or the metadata write of a call fails (an     *)
(* image write that produces no file included), the call returns False     *)
(* and last_save_timestamp keeps the value it had before the call.         *)
(* (Refuted: line 129 ignores the False cv2.imwrite returns.)              *)
(***************************************************************************)
C4_FailedWriteKeepsTimestamp ==
    ( /\ pc = "idle"
      /\ \/ done.image \in {"false", "raise"}
         \/ done.json = "raise" )
    => ( /\ done.ret = FALSE
         /\ done.after = done.before
         /\ last_save_timestamp = done.before )

(***************************************************************************)
(* C5.  Every metadata (.json) file has a sibling image (.jpg) file of     *)
(* the same base name in the same date bucket, in every reachable state.   *)
(* (Refuted: as C4, the metadata is written after an image write that      *)
(* produced no file.)                                                      *)
(***************************************************************************)
C5_NoOrphanMetadata ==
    \A f \in files :
        f.ext = "json" =>
            \E g \in files :
                g.ext = "jpg" /\ g.dir = f.dir /\ g.hms = f.hms /\ g.id = f.id

(***************************************************************************)
(* C6.  When the free-space check of a save that passed the rate limiter   *)
(* fails, cleanup_old_files runs exactly once and the check is repeated    *)
(* exactly once; when the second check fails too, the call returns False,  *)
(* writes no event file and leaves last_save_timestamp unchanged; when it  *)
(* passes, the save goes on.                                               *)
(***************************************************************************)
C6_QuotaRetriedOnce ==
    [][ ( pc = "quota" /\ pc' # "quota" )
        => LET c == IF pc' = "idle" THEN done' ELSE call' IN
           ( c.checks # <<>> /\ ~c.checks[1] )
           => ( /\ Len(c.checks) = 2
                /\ c.cleanups = 1
                /\ entries' = CleanupEntries(entries, clock, DefaultDaysToKeep)
                /\ last_save_timestamp' = last_save_timestamp
                /\ IF c.checks[2]
                   THEN pc' = "prepare"
                   ELSE /\ pc' = "idle"
                        /\ done'.ret = FALSE
                        /\ done'.why = "no_space"
                        /\ files' \subseteq files ) ]_vars

\* A save whose first check failed went on after the cleanup and saved.
C6_Witness ==
    /\ done.checks = <<FALSE, TRUE>>
    /\ done.cleanups = 1
    /\ done.ret

(***************************************************************************)
(* C9.  cleanup_old_files(days_to_keep) removes every date bucket whose    *)
(* date lies more than days_to_keep days before today, with all the files  *)
(* in it, and leaves every other bucket, every directory whose name is no  *)
(* calendar date, every file and the 'latest' pointer as they are.         *)
(***************************************************************************)
IsCalendarDate(n) ==
    /\ n.text = ""
    /\ n.m \in 1..12
    /\ n.d \in 1..(IF n.m = 2
                   THEN (IF n.y % 4 = 0 /\ (n.y % 100 # 0 \/ n.y % 400 = 0)
                         THEN 29 ELSE 28)
                   ELSE IF n.m \in {4, 6, 9, 11} THEN 30 ELSE 31)

\* The days from the date a bucket is named after to the date of now.
BucketAge(n, now) == (now \div SecondsPerDay) - ToOrdinal(n.y, n.m, n.d)

ExpiredBuckets(es, now, d) ==
    { e \in es : e.kind = "dir" /\ IsCalendarDate(e.name) /\ BucketAge(e.name, now) > d }

CleanupPost(d) ==
    /\ entries' = entries \ ExpiredBuckets(entries, clock, d)
    /\ files' = { f \in files :
                    [name |-> f.dir, kind |-> "dir"] \notin ExpiredBuckets(entries, clock, d) }
    /\ latest' = latest

\* The step is the quota check of a save, and it ran the cleanup.
QuotaCleanup ==
    /\ pc = "quota"
    /\ pc' # "quota"
    /\ (IF pc' = "idle" THEN done' ELSE call').cleanups = 1

\* The step is a call cleanup_old_files(d) that removed something: it
\* leaves the clock and the calls of save_detected_object as they are.
CleanupCall(d) ==
    /\ pc = "idle"
    /\ pc' = "idle"
    /\ calls' = calls
    /\ clock' = clock
    /\ <<entries, files>>' # <<entries, files>>
    /\ cleanup_old_files(d)

\* The call that returned last ran the cleanup (lines 92-93) at its clock
\* reading of line 84: no bucket that was expired then is left.
CleanedBySave ==
    (pc = "idle" /\ done.cleanups = 1)
        => ExpiredBuckets(entries, done.current_time, DefaultDaysToKeep) = {}

C9_CleanupRemovesExpiredOnly ==
    /\ []CleanedBySave
    /\ [][ /\ \A d \in RetentionArgs : CleanupCall(d) => CleanupPost(d)
           /\ QuotaCleanup => CleanupPost(DefaultDaysToKeep) ]_vars

\* The bucket of 8 days ago is gone with its files, that of 7 days ago and
\* the directories that are no date buckets are there.
C9_Witness ==
    /\ DateName(2024, 2, 28) \notin Dirs(entries)
    /\ OldEvent(2024, 2, 28, "jpg") \notin files
    /\ DateName(2024, 2, 29) \in Dirs(entries)
    /\ OldEvent(2024, 2, 29, "json") \in files
    /\ {DateName(2024, 2, 30), TextName("tmp")} \subseteq Dirs(entries)

(***************************************************************************)
(* C10.  cleanup_old_files is idempotent: after a call, a second call      *)
(* with the same retention window, made before a save or a change of the   *)
(* date, leaves the layout as the first left it; and a call made when no   *)
(* bucket is expired changes nothing.                                      *)
(***************************************************************************)
\* The clock readings of a second call on the date of c: at once, and a
\* tick later.
SameDate(c) == { c2 \in {c, c + TickStep} : StrfDate(c2) = StrfDate(c) }

C10_CleanupIdempotent ==
    [][ \A d \in RetentionArgs :
          CleanupCall(d)
          => /\ \A c2 \in SameDate(clock') :
                  /\ CleanupEntries(entries', c2, d) = entries'
                  /\ CleanupFiles(entries', files', c2, d) = files'
             /\ ExpiredBuckets(entries, clock, d) = {}
                  => UNCHANGED <<entries, files, latest>> ]_vars

\* A cleanup removed both old buckets: no bucket is expired any more.
C10_Witness ==
    /\ DateName(2024, 2, 28) \notin Dirs(entries)
    /\ DateName(2024, 2, 29) \notin Dirs(entries)
    /\ ExpiredBuckets(entries, clock, 0) = {}
    /\ StrfDate(clock) \in Dirs(entries)

(***************************************************************************)
(* C7.  The first detect_objects call on a new ObjectDetector returns no   *)
(* region, whatever the frame, and leaves the background model equal to    *)
(* the preprocessed frame; no later call takes the initialisation branch.  *)
(***************************************************************************)
C7_FirstCallInitialises ==
    [][ frames' = frames + 1
        => /\ frames = 0
                => /\ background = <<>>
                   /\ branch' = "init"
                   /\ detected' = <<>>
                   /\ background' = Float32(preprocess_frame(frame'))
           /\ frames > 0
                => /\ background # <<>>
                   /\ branch' = "diff" ]_vars

\* The first call was made on a frame with red in it.
C7_Witness ==
    /\ frames = 1
    /\ branch = "init"
    /\ detected = <<>>
    /\ \E i \in 1..FrameWidth : frame[i] = <<0, 0, 255>>
    /\ \E i \in 1..FrameWidth : background[i] # 0

(***************************************************************************)
(* C8.  A frame whose preprocessed image equals the background model       *)
(* rounded to 8 bits yields no region, whatever calls came before.         *)
(***************************************************************************)
C8_BackgroundFrameHasNoRegions ==
    [][ ( /\ frames' = frames + 1
          /\ background # <<>>
          /\ preprocess_frame(frame') = ConvertScaleAbs(background) )
        => ( /\ detected' = <<>>
             /\ branch' = "diff" ) ]_vars

\* A frame matched a background model that it equals only after rounding
\* (the model left is then not the frame), and no region came back.
C8_Witness ==
    /\ branch = "diff"
    /\ \A i \in 1..FrameWidth : delta[i] = 0
    /\ detected = <<>>
    /\ background # Float32(preprocess_frame(frame))

(***************************************************************************)
(* C13.  A save that passed the rate limiter and the free-space check, on  *)
(* a disk that refuses no write, leaves its image and its metadata in the  *)
(* bucket of the calendar date it ran on, on every day the store runs.     *)
(* (Refuted: the bucket is made at construction only, lines 41-42.)        *)
(***************************************************************************)
\* The calendar dates the clock showed while the call c ran.
DatesOf(c) == { StrfDate(c.current_time + k * TickStep) : k \in 0..MaxStall }

C13_SavedInBucketOfTheDay ==
    ( /\ pc = "idle"
      /\ done.checks # <<>>
      /\ done.checks[Len(done.checks)]
      /\ ~done.fault )
    => ( /\ done.dir \in DatesOf(done)
         /\ OnDisk(done, "jpg")
         /\ OnDisk(done, "json") )

(***************************************************************************)
(* C18.  Of every event the store persisted, the date bucket and the       *)
(* HH-MM-SS prefix of the file name agree with the date and the time in    *)
(* the event id and with the timestamp in the metadata, also when the      *)
(* clock moves on while the call runs.                                     *)
(* (Refuted: lines 97, 103, 66 and 68 read the clock one after another.)   *)
(***************************************************************************)
C18_NameIdAndTimestampAgree ==
    \A f \in files \ LeftOverFiles :
        /\ f.dir = f.id.date
        /\ f.hms = f.id.time
        /\ f.ts.date = f.id.date
        /\ f.ts.time = f.id.time

(***************************************************************************)
(* C20.  No cleanup with a retention window of 0 days or more removes the  *)
(* bucket of the current date or a file in it; the cleanup a save runs     *)
(* leaves the directory that save then writes into.                        *)
(***************************************************************************)
\* The files in the bucket named n.
FilesIn(n, fs) == { f \in fs : f.dir = n }

C20_CleanupKeepsToday ==
    [][ /\ [name |-> StrfDate(clock), kind |-> "dir"] \in entries
            => /\ [name |-> StrfDate(clock), kind |-> "dir"] \in entries'
               /\ FilesIn(StrfDate(clock), files) \subseteq files'
        /\ QuotaCleanup
            => \A n \in DatesOf(call) :
                   n \in Dirs(entries) => /\ n \in Dirs(entries')
                                          /\ FilesIn(n, files) \subseteq files' ]_vars

\* A save ran the cleanup, which removed the bucket of 8 days ago, and
\* then wrote its event into the bucket of the day.
C20_Witness ==
    /\ done.cleanups = 1
    /\ done.ret
    /\ DateName(2024, 2, 28) \notin Dirs(entries)
    /\ done.dir = StrfDate(done.current_time)
    /\ OnDisk(done, "json")
    /\ FilesIn(done.dir, files) # {}

(***************************************************************************)
(* C14.  The background model is absent until the first detect_objects     *)
(* call and never afterwards; every later call replaces it by              *)
(* 0.8 * background + 0.2 * preprocessed frame, once, whether or not the   *)
(* call returned a region.                                                 *)
(***************************************************************************)
C14_BackgroundLifecycle ==
    /\ [](background = <<>> <=> frames = 0)
    /\ [][ (frames' = frames + 1 /\ frames > 0)
           => /\ Len(background') = Len(background)
              /\ \A i \in 1..Len(background) :
                    5 * background'[i]
                        = 4 * background[i] + preprocess_frame(frame')[i] * Scale ]_vars

\* A call that returned a region has moved the background model towards
\* its frame.
C14_Witness ==
    /\ branch = "diff"
    /\ detected # <<>>
    /\ \E i \in 1..FrameWidth : delta[i] > 0 /\ background[i] > 0
    /\ background # Float32(preprocess_frame(frame))

(***************************************************************************)
(* C19.  last_save_timestamp changes only as a save_detected_object call   *)
(* returns True, and each change of a value it holds raises it by at       *)
(* least min_save_interval seconds, also when the clock was set back       *)
(* between the calls.                                                      *)
(***************************************************************************)
C19_LastSaveOnlyMovesForward ==
    [][ last_save_timestamp' # last_save_timestamp
        => /\ pc = "json"
           /\ pc' = "idle"
           /\ done'.ret
           /\ last_save_timestamp' # None
           /\ last_save_timestamp # None
                => last_save_timestamp' - last_save_timestamp >= min_save_interval ]_vars

\* After a save the clock was set back: a call that began before the
\* moment of the last save was skipped and left last_save_timestamp alone.
C19_Witness ==
    /\ done.why = "rate_limited"
    /\ done.current_time < done.before
    /\ last_save_timestamp = done.before

(***************************************************************************)
(* C11.  No exception of save_detected_object or cleanup_old_files reaches *)
(* the caller, whatever the input and the disk do: a save that fails       *)
(* returns False.  The construction raises to its caller exactly when      *)
(* mkdir of the base or of today's directory raised; a 'latest' link that  *)
(* could not be made does not fail it.                                     *)
(***************************************************************************)
C11_NoFailureIsFatal ==
    /\ done.why # "propagated"
    /\ done.why \in {"no_space", "io_error", "bad_input"} => ~done.ret
    /\ instance.raised = "none"
    /\ instance.ok <=> instance.mkdir = "ok"

C11_Witness ==
    /\ instance.n = MaxRuns
    /\ instance.ok
    /\ instance.link = "FileExistsError"
    /\ instance.logged = "OSError"
    /\ done.why = "bad_input"
    /\ pc = "idle"

(***************************************************************************)
(* C17.  After a construction that succeeded with an absolute base_path on *)
(* a filesystem with symbolic links, and for the rest of that day,         *)
(* images/latest is a link that leads to the bucket of the construction's  *)
(* date, whatever link the earlier runs left.                              *)
(***************************************************************************)
C17_LatestRefersToToday ==
    ( /\ instance.ok
      /\ instance.symlinks
      /\ instance.absolute
      /\ StrfDate(clock) = StrfDate(instance.at) )
    => /\ latest.present
       /\ latest.resolves
       /\ latest.target = StrfDate(instance.at)
       /\ latest.target \in Dirs(entries)
(***************************************************************************)
(* C12.  In the capture loop the regions of a frame go to the store in the *)
(* order of the region list, and a save that persists a region (returns    *)
(* True) is the save of the first region of its frame.                     *)
(***************************************************************************)
C12_OnlyFirstRegionPersisted ==
    [][ /\ (pc = "idle" /\ calls' = calls + 1)
            => /\ loop'.index = loop.index + 1
               /\ (IF pc' = "idle" THEN done' ELSE call').bbox = loop.objects[loop'.index]
        /\ (pc = "json" /\ pc' = "idle" /\ done'.ret) => loop.index = 1 ]_vars

(***************************************************************************)
(* C16.  The frame the loop holds carries no rectangle, whatever the       *)
(* detector and the store drew, and every image the store wrote shows the  *)
(* rectangle of the region saved and no other.                             *)
(***************************************************************************)
C16_PersistedImageHasOwnBoxOnly ==
    /\ loop.marks = {}
    /\ \A f \in files \ LeftOverFiles : f.ext = "jpg" => f.drawn = {f.bbox}

C16_Witness ==
    /\ Cardinality(loop.processed) = 2
    /\ loop.index = 2
    /\ pc = "idle"
    /\ done.ret
    /\ done.bbox = loop.objects[2]
    /\ \E f \in files \ LeftOverFiles : f.ext = "jpg" /\ f.bbox = done.bbox
(***************************************************************************)
(* C15.  When the frames passed to detect_objects stay the same image from *)
(* some call on, the calls come to return the empty region list, and a     *)
(* call that returned it is followed by calls that return it as long as    *)
(* the image stays.                                                        *)
(***************************************************************************)
C15_StillFrameIsAbsorbed ==
    /\ <>[](frames >= StillAfter /\ detected = <<>>)
    /\ [][ ( /\ frames >= StillAfter
             /\ frames' = frames + 1
             /\ branch = "diff"
             /\ detected = <<>> )
           => detected' = <<>> ]_vars

C15_Witness ==
    /\ frames > StillAfter
    /\ branch = "diff"
    /\ detected = <<>>
    /\ \E i \in 1..FrameWidth : delta[i] > 20
====
